---- MODULE Spec2Model ----
(***************************************************************************)
(* Profiling pipeline of umd: stack folding (pkg/flamegraph/collapse.go),  *)
(* flame tree construction and layout (GenerateSVG / renderFrame), and the *)
(* capture of a profile with the platform's tools (capture_linux.go,       *)
(* capture_darwin.go), the collector fan-out of the USE checker            *)
(* (pkg/use/checker.go) and the rolling windows of the sparkline tracker.  *)
(*                                                                         *)
(* Text is modelled as sequences of one-character strings, so that every   *)
(* conversion (trimming, field splitting, joining, decimal formatting and  *)
(* parsing) is computed the way the Go code computes it.                   *)
(***************************************************************************)
EXTENDS Integers, Sequences, FiniteSets, TLC

VARIABLES
    family,        \* which entry point runs: "perf", "dtrace" or "folded"
    src,           \* what the reader delivers: "any" line or a fixed example
    raw,           \* lines handed out so far by scanner.Scan()
    pc,            \* position in the pipeline
    currentStack,  \* collapse.go: var currentStack []string
    stacks,        \* collapse.go: stacks map[string]int
    collapsed,     \* bytes written to w by writeCollapsed / read by GenerateSVG
    unread,        \* bytes of collapsed not yet consumed by GenerateSVG's scanner
    root,          \* the frame tree: path (sequence of names) -> value
    totalSamples,  \* GenerateSVG: var totalSamples int
    opts,          \* SVGOptions after defaulting
    svg,           \* rectangles written to the image, in emission order
    err,           \* GenerateSVG's returned error ("" is nil)
    platform,      \* the build: "linux" or "darwin" ("none": Capture is not run)
    envPath,       \* the executables exec.LookPath finds on PATH
    request,       \* CaptureOptions: Duration (in milliseconds) and PID
    ctxDone,       \* ctx has been cancelled
    cpc,           \* position in platformCapture
    cmd,           \* the exec.Cmd being run
    durSec,        \* platformCapture: durSec
    procs,         \* the processes started so far, in order
    running,       \* the names of the processes that have not exited yet
    exits,         \* the exits of the processes, in order
    stdout,        \* the lines the last process wrote to its standard output
    result,        \* the *CaptureResult returned (<<>> is nil)
    capErr,        \* the error returned by Capture, as message parts (<<>> is nil)
    fnFamily,      \* frame extraction: the collapser that reads the frame line
    fnSymbol,      \* the symbol field of the frame line
    fnName,        \* collapse.go: funcName after the offset is removed
    fnDone,        \* the frame line has been read
    collectors,    \* RunAll: what each collector's Collect returns
    spawned,       \* RunAll: collectors for which the loop has started a goroutine
    gpc,           \* RunAll: position of each goroutine
    checks,        \* RunAll: each goroutine's local checks
    loaded,        \* RunAll: the allChecks slice a goroutine read for its append
    mu,            \* RunAll: the goroutine holding mu (0: unlocked)
    wg,            \* RunAll: the WaitGroup counter
    allChecks,     \* RunAll: var allChecks []Check
    runAllPc,      \* RunAll: position of the calling goroutine
    runAllResult,  \* RunAll: the slice returned
    newArg,        \* NewSparklineTracker: the maxLen argument
    maxLen,        \* SparklineTracker.maxLen
    data,          \* SparklineTracker.data
    smu,           \* SparklineTracker.mu: the caller holding it (0: unlocked)
    rpc,           \* Record: position of each caller
    rarg,          \* Record: key and value of each caller
    recorded       \* the Record calls in the order they took the lock

pipelineVars == <<family, src, raw, pc, currentStack, stacks, collapsed, unread,
                  root, totalSamples, opts, svg, err>>

captureVars == <<platform, envPath, request, ctxDone, cpc, cmd, durSec, procs,
                 running, exits, stdout, result, capErr>>

frameVars == <<fnFamily, fnSymbol, fnName, fnDone>>

runAllVars == <<collectors, spawned, gpc, checks, loaded, mu, wg, allChecks,
                runAllPc, runAllResult>>

sparklineVars == <<newArg, maxLen, data, smu, rpc, rarg, recorded>>

auxVars == <<frameVars, runAllVars, sparklineVars>>

vars == <<pipelineVars, captureVars, auxVars>>

(***************************************************************************)
(* Bounds of the model.                                                    *)
(***************************************************************************)
MaxPerfLines == 4
MaxDtraceLines == 4
MaxFoldedLines == 3

(***************************************************************************)
(* Bytes.  Ord gives the ASCII code used by Go's string comparison.        *)
(***************************************************************************)
\* the byte 0x60, which a TLA+ string literal cannot hold
Backquote == "BQ"

Ord(c) ==
    CASE c = "\t" -> 9   [] c = "\n" -> 10  [] c = "\r" -> 13  [] c = " " -> 32
      [] c = "(" -> 40   [] c = ")" -> 41   [] c = "+" -> 43   [] c = "-" -> 45
      [] c = "0" -> 48   [] c = "1" -> 49   [] c = "2" -> 50   [] c = "3" -> 51
      [] c = "4" -> 52   [] c = "5" -> 53   [] c = "6" -> 54   [] c = "7" -> 55
      [] c = "8" -> 56   [] c = "9" -> 57   [] c = ":" -> 58   [] c = ";" -> 59
      [] c = "A" -> 65   [] c = "B" -> 66   [] c = "C" -> 67   [] c = "X" -> 88
      [] c = "Y" -> 89   [] c = Backquote -> 96   [] c = "a" -> 97   [] c = "b" -> 98
      [] c = "c" -> 99   [] c = "d" -> 100  [] c = "f" -> 102  [] c = "m" -> 109
      [] c = "n" -> 110  [] c = "o" -> 111  [] c = "p" -> 112  [] c = "u" -> 117
      [] c = "x" -> 120

Digits == <<"0", "1", "2", "3", "4", "5", "6", "7", "8", "9">>

IsDigit(c) == \E i \in 1..10 : Digits[i] = c

DigitVal(c) == (CHOOSE i \in 1..10 : Digits[i] = c) - 1

\* unicode.IsSpace restricted to the bytes of the model
IsSpace(c) == c \in {" ", "\t", "\r", "\n"}

(***************************************************************************)
(* package strings                                                         *)
(***************************************************************************)
RECURSIVE TrimLeft(_)
TrimLeft(s) == IF s # <<>> /\ IsSpace(Head(s)) THEN TrimLeft(Tail(s)) ELSE s

RECURSIVE TrimRight(_)
TrimRight(s) ==
    IF s # <<>> /\ IsSpace(s[Len(s)]) THEN TrimRight(SubSeq(s, 1, Len(s) - 1)) ELSE s

TrimSpace(s) == TrimRight(TrimLeft(s))

HasPrefix(s, p) == Len(s) >= Len(p) /\ SubSeq(s, 1, Len(p)) = p

\* strings.Index for a one-byte needle: 0-based position of the first c, or -1
Index(s, c) ==
    IF \E i \in 1..Len(s) : s[i] = c
    THEN (CHOOSE i \in 1..Len(s) : s[i] = c /\ \A j \in 1..(i - 1) : s[j] # c) - 1
    ELSE -1

\* s[i:] and s[:i] with Go's 0-based indices
From(s, i) == SubSeq(s, i + 1, Len(s))
Upto(s, i) == SubSeq(s, 1, i)

\* length of the longest prefix of s without white space
RECURSIVE WordLen(_)
WordLen(s) == IF s = <<>> \/ IsSpace(Head(s)) THEN 0 ELSE 1 + WordLen(Tail(s))

RECURSIVE Fields(_)
Fields(s) ==
    LET t == TrimLeft(s) IN
    IF t = <<>> THEN <<>>
    ELSE <<Upto(t, WordLen(t))>> \o Fields(From(t, WordLen(t)))

RECURSIVE Join(_, _)
Join(elems, sep) ==
    IF elems = <<>> THEN <<>>
    ELSE IF Len(elems) = 1 THEN elems[1]
    ELSE elems[1] \o <<sep>> \o Join(Tail(elems), sep)

\* strings.Split for a one-byte separator: always at least one element
RECURSIVE Split(_, _)
Split(s, sep) ==
    LET i == Index(s, sep) IN
    IF i < 0 THEN <<s>> ELSE <<Upto(s, i)>> \o Split(From(s, i + 1), sep)

\* strings.SplitN(s, sep, 2)
SplitN2(s, sep) ==
    LET i == Index(s, sep) IN
    IF i < 0 THEN <<s>> ELSE <<Upto(s, i), From(s, i + 1)>>

Reverse(s) == [i \in 1..Len(s) |-> s[Len(s) + 1 - i]]

\* byte-wise s < t, the order of sort.Strings
RECURSIVE Less(_, _)
Less(s, t) ==
    IF t = <<>> THEN FALSE
    ELSE IF s = <<>> THEN TRUE
    ELSE IF Head(s) # Head(t) THEN Ord(Head(s)) < Ord(Head(t))
    ELSE Less(Tail(s), Tail(t))

RECURSIVE Insert(_, _)
Insert(sorted, k) ==
    IF sorted = <<>> THEN <<k>>
    ELSE IF Less(k, Head(sorted)) THEN <<k>> \o sorted
    ELSE <<Head(sorted)>> \o Insert(Tail(sorted), k)

RECURSIVE SortStrings(_)
SortStrings(keys) ==
    IF keys = <<>> THEN <<>> ELSE Insert(SortStrings(Tail(keys)), Head(keys))

(***************************************************************************)
(* package fmt: %d formatting and Sscanf("%d") parsing                     *)
(***************************************************************************)
RECURSIVE Utoa(_)
Utoa(n) == IF n < 10 THEN <<Digits[n + 1]>> ELSE Utoa(n \div 10) \o <<Digits[(n % 10) + 1]>>

Itoa(n) == IF n < 0 THEN <<"-">> \o Utoa(-n) ELSE Utoa(n)

RECURSIVE DigitRun(_)
DigitRun(s) == IF s = <<>> \/ ~IsDigit(Head(s)) THEN <<>> ELSE <<Head(s)>> \o DigitRun(Tail(s))

RECURSIVE Atou(_)
Atou(ds) == IF ds = <<>> THEN 0 ELSE 10 * Atou(Upto(ds, Len(ds) - 1)) + DigitVal(ds[Len(ds)])

\* fmt.Sscanf(s, "%d", &count): leading blanks are skipped, one sign is accepted,
\* then a run of digits is read; what follows the number is left unread.  With no
\* digit the scan fails and count keeps the value it had (def).
Sscanf(s, def) ==
    LET t    == TrimLeft(s)
        sign == IF t # <<>> /\ Head(t) \in {"+", "-"} THEN Head(t) ELSE ""
        body == IF sign = "" THEN t ELSE Tail(t)
        ds   == DigitRun(body)
    IN  IF ds = <<>> THEN def
        ELSE IF sign = "-" THEN 0 - Atou(ds) ELSE Atou(ds)

(***************************************************************************)
(* collapse.go                                                             *)
(***************************************************************************)
\* stacks[key] += n on a Go map: a missing key reads as 0 and is created
AddCount(m, key, n) ==
    IF key \in DOMAIN m THEN [m EXCEPT ![key] = @ + n] ELSE m @@ (key :> n)

isCountLine(s) == (\A i \in 1..Len(s) : IsDigit(s[i])) /\ Len(s) > 0

\* CollapsePerf, lines 38-49: the frame a line contributes, as a sequence of
\* zero or one names
PerfFrame(line) ==
    LET trimmed == TrimSpace(line) IN
    IF HasPrefix(line, <<"\t">>) \/ HasPrefix(line, <<" ", " ">>)
    THEN LET fields == Fields(trimmed) IN
         IF Len(fields) >= 2
         THEN LET funcName == fields[2]
                  idx      == Index(funcName, "+")
              IN  <<IF idx > 0 THEN Upto(funcName, idx) ELSE funcName>>
         ELSE <<>>
    ELSE <<>>

\* the flush without the reversal of lines 27-29
PerfFlushNoReverse(st) ==
    IF Len(st.currentStack) > 0
    THEN [currentStack |-> <<>>,
          stacks |-> AddCount(st.stacks, Join(st.currentStack, ";"), 1)]
    ELSE st

\* CollapsePerf, lines 25-33 and 53-59: fold the pending stack, leaf-first input
PerfFlush(st) ==
    IF Len(st.currentStack) > 0
    THEN [currentStack |-> <<>>,
          stacks |-> AddCount(st.stacks, Join(Reverse(st.currentStack), ";"), 1)]
    ELSE st

\* CollapsePerf, lines 19-50: one iteration of the scanner loop
PerfScanLine(st, line) ==
    IF TrimSpace(line) = <<>>
    THEN PerfFlush(st)
    ELSE [st EXCEPT !.currentStack = @ \o PerfFrame(line)]

\* CollapsePerf, lines 52-59: after the loop
PerfEnd(st) == PerfFlush(st)

\* CollapseDtrace, lines 96-106: the frame name of a frame line
DtraceFrame(trimmed) ==
    LET bt == Index(trimmed, Backquote)
        f1 == IF bt >= 0 THEN From(trimmed, bt + 1) ELSE trimmed
        pl == Index(f1, "+")
    IN  IF pl > 0 THEN Upto(f1, pl) ELSE f1

\* the loop body with a count line treated like a blank line (count 1)
DtraceScanLineCountOne(st, line) ==
    LET trimmed == TrimSpace(line) IN
    IF trimmed = <<>> \/ isCountLine(trimmed)
    THEN IF Len(st.currentStack) > 0
         THEN [currentStack |-> <<>>,
               stacks |-> AddCount(st.stacks, Join(st.currentStack, ";"), 1)]
         ELSE st
    ELSE [st EXCEPT !.currentStack = Append(@, DtraceFrame(trimmed))]

\* the loop body without the len(currentStack) > 0 tests of lines 75 and 85
DtraceScanLineUnguarded(st, line) ==
    LET trimmed == TrimSpace(line) IN
    IF trimmed = <<>>
    THEN [currentStack |-> <<>>,
          stacks |-> AddCount(st.stacks, Join(st.currentStack, ";"), 1)]
    ELSE IF isCountLine(trimmed)
    THEN [currentStack |-> <<>>,
          stacks |-> AddCount(st.stacks, Join(st.currentStack, ";"),
                              Sscanf(trimmed, 1))]
    ELSE [st EXCEPT !.currentStack = Append(@, DtraceFrame(trimmed))]

\* CollapseDtrace, lines 70-107: one iteration of the scanner loop
DtraceScanLine(st, line) ==
    LET trimmed == TrimSpace(line) IN
    IF trimmed = <<>>
    THEN IF Len(st.currentStack) > 0
         THEN [currentStack |-> <<>>,
               stacks |-> AddCount(st.stacks, Join(st.currentStack, ";"), 1)]
         ELSE st
    ELSE IF isCountLine(trimmed)
    THEN IF Len(st.currentStack) > 0
         THEN [currentStack |-> <<>>,
               stacks |-> AddCount(st.stacks, Join(st.currentStack, ";"),
                                   Sscanf(trimmed, 1))]
         ELSE st
    ELSE [st EXCEPT !.currentStack = Append(@, DtraceFrame(trimmed))]

\* CollapseDtrace, lines 107-109: nothing is done between the loop and the write
DtraceEnd(st) == st

\* every order in which "for k := range stacks" may deliver the keys
KeyOrders(m) ==
    {o \in [1..Cardinality(DOMAIN m) -> DOMAIN m] :
        \A i, j \in DOMAIN o : i # j => o[i] # o[j]}

RECURSIVE WriteRecords(_, _)
WriteRecords(keys, m) ==
    IF keys = <<>> THEN <<>>
    ELSE Head(keys) \o <<" ">> \o Itoa(m[Head(keys)]) \o <<"\n">>
         \o WriteRecords(Tail(keys), m)

\* the write without sort.Strings: records in map iteration order
writeCollapsedUnsorted(m, order) == WriteRecords(order, m)

\* writeCollapsed, with the map delivering its keys in the order given
writeCollapsed(m, order) == WriteRecords(SortStrings(order), m)

(***************************************************************************)
(* GenerateSVG: folded-stack parser and tree builder                       *)
(***************************************************************************)
frameHeight == 16
headerHeight == 40
margin == 10
defaultWidth == 1200

\* bufio.ScanLines: the next token (without its line end and without one
\* trailing carriage return) and the bytes left after it
dropCR(tok) == IF tok # <<>> /\ tok[Len(tok)] = "\r" THEN Upto(tok, Len(tok) - 1) ELSE tok

ScanLine(buf) ==
    LET i == Index(buf, "\n") IN
    IF i >= 0 THEN [line |-> dropCR(Upto(buf, i)), rest |-> From(buf, i + 1)]
    ELSE [line |-> dropCR(buf), rest |-> <<>>]

\* GenerateSVG, lines 56-65: a line's stack and count; ok is FALSE where the
\* loop continues without using the line
ParseFolded(line) ==
    LET parts == SplitN2(line, " ") IN
    IF Len(parts) # 2 THEN [ok |-> FALSE, stack |-> <<>>, count |-> 0]
    ELSE LET count == Sscanf(parts[2], 0) IN
         [ok |-> TRUE, stack |-> parts[1], count |-> IF count = 0 THEN 1 ELSE count]

\* the descent with the increment applied to the last frame only
RECURSIVE DescendLeafOnly(_, _, _, _)
DescendLeafOnly(tree, node, frames, count) ==
    IF frames = <<>> THEN tree
    ELSE LET child == Append(node, Head(frames)) IN
         DescendLeafOnly(AddCount(tree, child, IF Len(frames) = 1 THEN count ELSE 0),
                         child, Tail(frames), count)

\* GenerateSVG, lines 70-79: descend from node along frames, creating missing
\* children and adding count to each child visited
RECURSIVE Descend(_, _, _, _)
Descend(tree, node, frames, count) ==
    IF frames = <<>> THEN tree
    ELSE LET child == Append(node, Head(frames)) IN
         Descend(AddCount(tree, child, count), child, Tail(frames), count)

\* the record applied without line 80, root.value += count
BuildTreeNoRoot(tree, stack, count) == Descend(tree, <<>>, Split(stack, ";"), count)

\* GenerateSVG, lines 68-80: one record applied to the tree
BuildTree(tree, stack, count) ==
    LET t == Descend(tree, <<>>, Split(stack, ";"), count) IN
    [t EXCEPT ![<<>>] = @ + count]

\* newFrame("root")
NewRoot == (<<>> :> 0)

(***************************************************************************)
(* renderFrame and getMaxDepth                                             *)
(***************************************************************************)
Abs(n) == IF n < 0 THEN 0 - n ELSE n

\* int(float64(a) / float64(b)): Go converts to int by truncating toward zero.
\* All products of the model are far below 2^53, where float64 is exact.
TruncDiv(a, b) ==
    LET q == Abs(a) \div Abs(b) IN IF (a < 0) # (b < 0) THEN 0 - q ELSE q

ChildPaths(tree, path) ==
    {p \in DOMAIN tree : Len(p) = Len(path) + 1 /\ Upto(p, Len(path)) = path}

RECURSIVE SetToSeq(_)
SetToSeq(S) == IF S = {} THEN <<>> ELSE LET x == CHOOSE y \in S : TRUE IN <<x>> \o SetToSeq(S \ {x})

\* the keys of the children map of a node, and every key of the tree
ChildNameSet(tree, path) == {p[Len(p)] : p \in ChildPaths(tree, path)}

NameSet(tree) == {p[Len(p)] : p \in DOMAIN tree \ {<<>>}}

\* the orders in which "range f.children" may deliver keys: a ranking of the
\* names of the tree, every map delivering its own keys in that ranking
RangeOrders(tree) ==
    {o \in [1..Cardinality(NameSet(tree)) -> NameSet(tree)] :
        \A i, j \in DOMAIN o : i # j => o[i] # o[j]}

\* "for name := range f.children" at the node path
MapRange(tree, path, order) ==
    SelectSeq(order, LAMBDA n : n \in ChildNameSet(tree, path))

\* the children's names as the map delivers them, without sort.Strings
childNamesUnsorted(tree, path, order) == MapRange(tree, path, order)

\* renderFrame, lines 163-168: the children's names, sorted
childNames(tree, path, order) == SortStrings(MapRange(tree, path, order))

\* the child width rounded up instead of truncated
childWidthRoundedUp(width, childValue, value) ==
    LET w == TruncDiv(width * childValue + (value - 1), value) IN IF w < 1 THEN 1 ELSE w

\* renderFrame, lines 174-177
childWidth(width, childValue, value) ==
    LET w == TruncDiv(width * childValue, value) IN IF w < 1 THEN 1 ELSE w

RECURSIVE renderFrame(_, _, _, _, _, _, _)
RECURSIVE renderChildren(_, _, _, _, _, _, _, _)

\* renderFrame, lines 126-181: the rectangles written, in order; order is the
\* order in which the children maps deliver their keys
renderFrame(tree, path, x, baseY, width, depth, order) ==
    IF width < 1 \/ tree[path] = 0 THEN <<>>
    ELSE <<[kind |-> "rect", path |-> path, x |-> x,
            y |-> (baseY - depth * frameHeight) - frameHeight,
            width |-> width, height |-> frameHeight - 1, depth |-> depth,
            value |-> tree[path]]>>
         \o renderChildren(tree, path, childNames(tree, path, order),
                           x, baseY, width, depth, order)

\* renderFrame, lines 170-180: the loop over the sorted children
renderChildren(tree, path, names, childX, baseY, width, depth, order) ==
    IF names = <<>> THEN <<>>
    ELSE LET child == Append(path, Head(names))
             cw    == childWidth(width, tree[child], tree[path])
         IN  renderFrame(tree, child, childX, baseY, cw, depth + 1, order)
             \o renderChildren(tree, path, Tail(names), childX + cw,
                               baseY, width, depth, order)

\* the depth computed without descending into the children
getMaxDepthShallow(tree, path, depth, order) == depth

RECURSIVE getMaxDepth(_, _, _, _)
RECURSIVE maxOverChildren(_, _, _, _, _, _)

\* getMaxDepth, lines 200-209: the deepest level below the node path
getMaxDepth(tree, path, depth, order) ==
    maxOverChildren(tree, path, MapRange(tree, path, order), depth, depth, order)

\* getMaxDepth, lines 202-207: the loop over the children in map order
maxOverChildren(tree, path, names, depth, max, order) ==
    IF names = <<>> THEN max
    ELSE LET d == getMaxDepth(tree, Append(path, Head(names)), depth + 1, order)
         IN  maxOverChildren(tree, path, Tail(names), depth,
                             IF d > max THEN d ELSE max, order)

\* the write with the margin taken off the chart width once instead of twice
WriteSVGOneMargin(tree, total, o, order) ==
    LET totalHeight == (getMaxDepth(tree, <<>>, 0, order) + 2) * frameHeight
                       + headerHeight + 20
        height      == IF o.Height = 0 THEN totalHeight ELSE o.Height
        chartWidth  == o.Width - margin
        baseY       == height - 20
    IN  <<[kind |-> "header", width |-> o.Width, height |-> height, total |-> total]>>
        \o renderFrame(tree, <<>>, margin, baseY, chartWidth, 0, order)
        \o <<[kind |-> "footer"]>>

\* GenerateSVG, lines 87-123: header, rectangles and footer written to svg
WriteSVG(tree, total, o, order) ==
    LET totalHeight == (getMaxDepth(tree, <<>>, 0, order) + 2) * frameHeight
                       + headerHeight + 20
        height      == IF o.Height = 0 THEN totalHeight ELSE o.Height
        chartWidth  == o.Width - 2 * margin
        baseY       == height - 20
    IN  <<[kind |-> "header", width |-> o.Width, height |-> height, total |-> total]>>
        \o renderFrame(tree, <<>>, margin, baseY, chartWidth, 0, order)
        \o <<[kind |-> "footer"]>>

noSamples == "no samples found in collapsed stacks"

\* the zero check placed after the header write instead of before it
GenerateSVGOutputHeaderFirst(tree, total, o, order) ==
    IF total = 0
    THEN [err |-> noSamples, svg |-> <<WriteSVG(tree, total, o, order)[1]>>]
    ELSE [err |-> "", svg |-> WriteSVG(tree, total, o, order)]

\* GenerateSVG, lines 83-124: the error returned and what reached the writer
GenerateSVGOutput(tree, total, o, order) ==
    IF total = 0
    THEN [err |-> noSamples, svg |-> <<>>]
    ELSE [err |-> "", svg |-> WriteSVG(tree, total, o, order)]

(***************************************************************************)
(* Inputs                                                                  *)
(***************************************************************************)
PerfLines ==
    { <<>>,                                          \* blank
      <<"\t", "0", " ", "a", "+", "1">>,             \* frame a
      <<"\t", "0", " ", "b">>,                       \* frame b
      <<" ", " ", "0", " ", "a", ";", "b", "+", "2", " ", "(", "m", ")">>,
      <<"p", " ", "1", ":">> }                       \* event header, no frame

DtraceLines ==
    { <<>>,
      <<"a">>,
      <<" ", "m", Backquote, "b", "+", "1">>,
      <<"a", " ", "b">>,
      <<"2">>,
      <<"0">> }

PerfRecordExample ==
    << <<"\t", " ", "0", " ", "f", "u", "n", "c", "C", "+", "0", "x", "1", "0",
         " ", "(", "m", "o", "d", ")">>,
       <<"\t", " ", "0", " ", "f", "u", "n", "c", "B", "+", "0", "x", "4",
         " ", "(", "m", "o", "d", ")">>,
       <<"\t", " ", "0", " ", "f", "u", "n", "c", "A", "+", "0", "x", "0",
         " ", "(", "m", "o", "d", ")">>,
       <<>> >>

PerfExample == PerfRecordExample \o PerfRecordExample \o PerfRecordExample

DtraceExample ==
    << <<"f", "u", "n", "c", "X">>, <<"f", "u", "n", "c", "Y">>, <<"2">> >>

Example(fam) == IF fam = "perf" THEN PerfExample ELSE DtraceExample

LineSet(fam) == IF fam = "perf" THEN PerfLines ELSE DtraceLines

MaxLines(fam) == IF fam = "perf" THEN MaxPerfLines ELSE MaxDtraceLines

FoldedLines ==
    { <<"a", ";", "b", " ", "2">>,
      <<"a", ";", "c", " ", "1">>,
      <<"a", " ", "1">>,
      <<"a", " ", "0">>,
      <<"a", ";", "b", " ", "-", "2">>,
      <<"a", " ", "x">>,
      <<"a">>,
      <<" ", "1">> }

\* the SVGOptions GenerateSVG is called with
OptionSet ==
    { [Width |-> 0, Height |-> 0], [Width |-> 20, Height |-> 0],
      [Width |-> 21, Height |-> 0], [Width |-> 24, Height |-> 0],
      [Width |-> 24, Height |-> 50] }

\* the lines scanner.Scan() may deliver next; none means end of input
NextLines ==
    IF src = "any"
    THEN IF Len(raw) < MaxLines(family) THEN LineSet(family) ELSE {}
    ELSE IF Len(raw) < Len(Example(family)) THEN {Example(family)[Len(raw) + 1]}
    ELSE {}

AtEOF == src = "any" \/ Len(raw) = Len(Example(family))

EmptyMap == [k \in {} |-> 0]

(***************************************************************************)
(* Actions                                                                 *)
(***************************************************************************)
\* no exec.Cmd yet
noCmd == [name |-> "", file |-> "", pid |-> 0, sleep |-> 0, stderr |-> FALSE]

\* Capture is not called: the pipeline runs on text it is given
CaptureIdle ==
    /\ platform = "none"
    /\ envPath = {}
    /\ request = [Duration |-> 0, PID |-> 0]
    /\ ctxDone = FALSE
    /\ cpc = "idle"
    /\ cmd = noCmd
    /\ durSec = 0
    /\ procs = <<>>
    /\ running = {}
    /\ exits = <<>>
    /\ stdout = <<>>
    /\ result = <<>>
    /\ capErr = <<>>

\* no frame line is read on its own
FramesIdle ==
    /\ fnFamily = "none"
    /\ fnSymbol = <<>>
    /\ fnName = <<>>
    /\ fnDone = FALSE

\* RunAll is not called
RunAllIdle ==
    /\ collectors = <<>>
    /\ spawned = 0
    /\ gpc = <<>>
    /\ checks = <<>>
    /\ loaded = <<>>
    /\ mu = 0
    /\ wg = 0
    /\ allChecks = <<>>
    /\ runAllPc = "idle"
    /\ runAllResult = <<>>

\* no SparklineTracker is constructed
SparklineIdle ==
    /\ newArg = 0
    /\ maxLen = 0
    /\ data = [k \in {} |-> <<>>]
    /\ smu = 0
    /\ rpc = <<>>
    /\ rarg = <<>>
    /\ recorded = <<>>

Init ==
    /\ \/ family \in {"perf", "dtrace"} /\ src \in {"any", "example"} /\ pc = "scan"
       \/ family = "folded" /\ src = "any" /\ pc = "input"
    /\ raw = <<>>
    /\ currentStack = <<>>
    /\ stacks = EmptyMap
    /\ collapsed = <<>>
    /\ unread = <<>>
    /\ root = EmptyMap
    /\ totalSamples = 0
    /\ opts = [Width |-> 0, Height |-> 0]
    /\ svg = <<>>
    /\ err = ""
    /\ CaptureIdle
    /\ FramesIdle /\ RunAllIdle /\ SparklineIdle

svgVars == <<unread, root, totalSamples, opts, svg, err>>

CollapsePerfScan ==
    /\ pc = "scan" /\ family = "perf"
    /\ \E line \in NextLines :
         LET st == PerfScanLine([currentStack |-> currentStack, stacks |-> stacks], line)
         IN  /\ raw' = Append(raw, line)
             /\ currentStack' = st.currentStack
             /\ stacks' = st.stacks
    /\ UNCHANGED <<family, src, pc, collapsed>>
    /\ UNCHANGED svgVars
    /\ UNCHANGED captureVars
    /\ UNCHANGED auxVars

CollapsePerfEnd ==
    /\ pc = "scan" /\ family = "perf" /\ AtEOF
    /\ LET st == PerfEnd([currentStack |-> currentStack, stacks |-> stacks])
       IN  /\ currentStack' = st.currentStack
           /\ stacks' = st.stacks
           /\ \E order \in KeyOrders(st.stacks) :
                collapsed' = writeCollapsed(st.stacks, order)
    /\ pc' = "collapsed"
    /\ UNCHANGED <<family, src, raw>>
    /\ UNCHANGED svgVars
    /\ UNCHANGED captureVars
    /\ UNCHANGED auxVars

CollapseDtraceScan ==
    /\ pc = "scan" /\ family = "dtrace"
    /\ \E line \in NextLines :
         LET st == DtraceScanLine([currentStack |-> currentStack, stacks |-> stacks], line)
         IN  /\ raw' = Append(raw, line)
             /\ currentStack' = st.currentStack
             /\ stacks' = st.stacks
    /\ UNCHANGED <<family, src, pc, collapsed>>
    /\ UNCHANGED svgVars
    /\ UNCHANGED captureVars
    /\ UNCHANGED auxVars

CollapseDtraceEnd ==
    /\ pc = "scan" /\ family = "dtrace" /\ AtEOF
    /\ LET st == DtraceEnd([currentStack |-> currentStack, stacks |-> stacks])
       IN  /\ currentStack' = st.currentStack
           /\ stacks' = st.stacks
           /\ \E order \in KeyOrders(st.stacks) :
                collapsed' = writeCollapsed(st.stacks, order)
    /\ pc' = "collapsed"
    /\ UNCHANGED <<family, src, raw>>
    /\ UNCHANGED svgVars
    /\ UNCHANGED captureVars
    /\ UNCHANGED auxVars

collapseVars == <<currentStack, stacks>>

\* folded-stack text supplied directly (a saved artifact), one line at a time
FoldedInput ==
    /\ pc = "input" /\ Len(raw) < MaxFoldedLines
    /\ \E line \in FoldedLines :
         /\ raw' = Append(raw, line)
         /\ collapsed' = collapsed \o line \o <<"\n">>
    /\ UNCHANGED <<family, src, pc>>
    /\ UNCHANGED collapseVars
    /\ UNCHANGED svgVars
    /\ UNCHANGED captureVars
    /\ UNCHANGED auxVars

\* GenerateSVG, lines 44-53
GenerateSVGStart ==
    /\ pc \in {"collapsed", "input"}
    /\ \E o \in OptionSet :
         opts' = IF o.Width = 0 THEN [o EXCEPT !.Width = defaultWidth] ELSE o
    /\ unread' = collapsed
    /\ root' = NewRoot
    /\ totalSamples' = 0
    /\ pc' = "parse"
    /\ UNCHANGED <<family, src, raw, collapsed, svg, err>>
    /\ UNCHANGED collapseVars
    /\ UNCHANGED captureVars
    /\ UNCHANGED auxVars

\* GenerateSVG, lines 54-81: one iteration of the scanner loop
GenerateSVGScan ==
    /\ pc = "parse" /\ unread # <<>>
    /\ LET tok == ScanLine(unread)
           rec == ParseFolded(tok.line)
       IN  /\ unread' = tok.rest
           /\ IF rec.ok
              THEN /\ totalSamples' = totalSamples + rec.count
                   /\ root' = BuildTree(root, rec.stack, rec.count)
              ELSE UNCHANGED <<totalSamples, root>>
    /\ UNCHANGED <<family, src, raw, pc, collapsed, opts, svg, err>>
    /\ UNCHANGED collapseVars
    /\ UNCHANGED captureVars
    /\ UNCHANGED auxVars

\* GenerateSVG, lines 83-124
GenerateSVGEnd ==
    /\ pc = "parse" /\ unread = <<>>
    /\ \E order \in RangeOrders(root) :
         LET out == GenerateSVGOutput(root, totalSamples, opts, order)
         IN  /\ err' = out.err
             /\ svg' = out.svg
    /\ pc' = "done"
    /\ UNCHANGED <<family, src, raw, collapsed, unread, root, totalSamples, opts>>
    /\ UNCHANGED collapseVars
    /\ UNCHANGED captureVars
    /\ UNCHANGED auxVars

Next ==
    \/ CollapsePerfScan
    \/ CollapsePerfEnd
    \/ CollapseDtraceScan
    \/ CollapseDtraceEnd
    \/ FoldedInput
    \/ GenerateSVGStart
    \/ GenerateSVGScan
    \/ GenerateSVGEnd

Spec == Init /\ [][Next]_vars

(***************************************************************************)
(* Vocabulary of the properties: records of a raw dump, lines of a text    *)
(***************************************************************************)
RECURSIVE SumSeq(_)
SumSeq(ns) == IF ns = <<>> THEN 0 ELSE Head(ns) + SumSeq(Tail(ns))

RECURSIVE Flatten(_)
Flatten(ss) == IF ss = <<>> THEN <<>> ELSE Head(ss) \o Flatten(Tail(ss))

SelectIdx(n, Keep(_)) == {i \in 1..n : Keep(i)}

RECURSIVE AllLines(_)
AllLines(buf) ==
    IF buf = <<>> THEN <<>>
    ELSE LET tok == ScanLine(buf) IN <<tok.line>> \o AllLines(tok.rest)

IsDelimiter(fam, line) ==
    \/ TrimSpace(line) = <<>>
    \/ fam = "dtrace" /\ isCountLine(TrimSpace(line))

\* the raw lines cut after every delimiter: body (the lines before the
\* delimiter) and term (the delimiter, or nothing at the end of the stream)
RECURSIVE ChunksFrom(_, _, _)
ChunksFrom(fam, lines, cur) ==
    IF lines = <<>>
    THEN IF cur = <<>> THEN <<>> ELSE <<[body |-> cur, term |-> <<>>]>>
    ELSE IF IsDelimiter(fam, Head(lines))
    THEN <<[body |-> cur, term |-> <<Head(lines)>>]>> \o ChunksFrom(fam, Tail(lines), <<>>)
    ELSE ChunksFrom(fam, Tail(lines), Append(cur, Head(lines)))

Chunks(fam, lines) == ChunksFrom(fam, lines, <<>>)

\* the frame names of a chunk in the order of its lines
FramesInLineOrder(fam, body) ==
    IF fam = "perf" THEN Flatten([i \in 1..Len(body) |-> PerfFrame(body[i])])
    ELSE [i \in 1..Len(body) |-> DtraceFrame(TrimSpace(body[i]))]

\* the root-first frame sequence of a chunk
RootFirst(fam, body) ==
    IF fam = "perf" THEN Reverse(FramesInLineOrder(fam, body))
    ELSE FramesInLineOrder(fam, body)

\* the count a record carries: the explicit number of a count line, else 1
RecordCount(term) ==
    IF term # <<>> /\ isCountLine(TrimSpace(term[1])) THEN Atou(TrimSpace(term[1])) ELSE 1

\* the stack records of a raw dump, the last one included when the stream
\* ends without a delimiter
Records(fam, lines) ==
    LET ch == Chunks(fam, lines)
        rs == [i \in 1..Len(ch) |->
                 [frames |-> RootFirst(fam, ch[i].body),
                  count |-> RecordCount(ch[i].term),
                  terminated |-> ch[i].term # <<>>]]
    IN  SelectSeq(rs, LAMBDA r : r.frames # <<>>)

\* the records C1 speaks of: every record of format A, the blank- or
\* count-terminated records of format B
DelimitedRecords(fam, lines) ==
    SelectSeq(Records(fam, lines), LAMBDA r : fam = "perf" \/ r.terminated)

CountOfSequence(recs, fs) ==
    SumSeq([i \in 1..Len(recs) |-> IF recs[i].frames = fs THEN recs[i].count ELSE 0])

CountOfKey(recs, key) ==
    SumSeq([i \in 1..Len(recs) |->
              IF Join(recs[i].frames, ";") = key THEN recs[i].count ELSE 0])

OutLine(key, count) == key \o <<" ">> \o Itoa(count)

Collapsed == pc = "collapsed"

(***************************************************************************)
(* C1: for any raw input the folded output holds exactly one record per    *)
(* distinct root-first frame sequence of the input, and its count is the   *)
(* sum of the counts of the input records with that sequence.              *)
(* Refuted: two different frame sequences whose semicolon-joined forms     *)
(* coincide share one output record.                                       *)
(***************************************************************************)
C1_OneRecordPerSequence ==
    Collapsed =>
        LET recs == DelimitedRecords(family, raw)
            seqs == {recs[i].frames : i \in 1..Len(recs)}
            out  == AllLines(collapsed)
        IN  /\ Len(out) = Cardinality(seqs)
            /\ \A fs \in seqs :
                 Cardinality({i \in 1..Len(out) :
                     out[i] = OutLine(Join(fs, ";"), CountOfSequence(recs, fs))}) = 1

(***************************************************************************)
(* C5: a final record that reaches the end of the stream without a         *)
(* delimiter is still aggregated into the folded output with its count.    *)
(* Refuted for CollapseDtrace, which writes the map right after the loop.  *)
(***************************************************************************)
C5_LastRecordFolded ==
    Collapsed =>
        LET recs == Records(family, raw) IN
        \A i \in 1..Len(recs) :
            ~recs[i].terminated =>
                LET key == Join(recs[i].frames, ";") IN
                \E j \in 1..Len(AllLines(collapsed)) :
                    AllLines(collapsed)[j] = OutLine(key, CountOfKey(recs, key))

(***************************************************************************)
(* C7: CollapsePerf emits the frames of a record root-first, the reverse   *)
(* of the order of its frame lines; the record funcC, funcB, funcA three   *)
(* times folds to the one line "funcA;funcB;funcC 3".                      *)
(***************************************************************************)
PerfExampleFolded ==
    <<"f", "u", "n", "c", "A", ";", "f", "u", "n", "c", "B", ";",
      "f", "u", "n", "c", "C", " ", "3", "\n">>

C7_PerfRootFirst ==
    (Collapsed /\ family = "perf") =>
        LET ch   == Chunks("perf", raw)
            keys == {Join(Reverse(FramesInLineOrder("perf", ch[i].body)), ";") :
                        i \in {j \in 1..Len(ch) :
                                 FramesInLineOrder("perf", ch[j].body) # <<>>}}
        IN  /\ DOMAIN stacks = keys
            /\ \A k \in keys :
                 \E j \in 1..Len(AllLines(collapsed)) :
                    AllLines(collapsed)[j] = OutLine(k, stacks[k])
            /\ src = "example" => collapsed = PerfExampleFolded

C7_Witness ==
    /\ Collapsed /\ family = "perf" /\ src = "example"
    /\ raw = PerfExample
    /\ collapsed = PerfExampleFolded

(***************************************************************************)
(* C8: CollapseDtrace keeps the frames in input order and ends a record at *)
(* a blank line, adding 1 to the count of its sequence, or at a line of    *)
(* digits, adding that number; funcX, funcY, 2 folds to "funcX;funcY 2".   *)
(***************************************************************************)
DtraceExampleFolded ==
    <<"f", "u", "n", "c", "X", ";", "f", "u", "n", "c", "Y", " ", "2", "\n">>

C8_DtraceRecords ==
    (Collapsed /\ family = "dtrace") =>
        LET ch   == Chunks("dtrace", raw)
            done == {j \in 1..Len(ch) : ch[j].body # <<>> /\ ch[j].term # <<>>}
            key(j) == Join([i \in 1..Len(ch[j].body) |->
                              DtraceFrame(TrimSpace(ch[j].body[i]))], ";")
            add(j) == IF TrimSpace(ch[j].term[1]) = <<>> THEN 1
                      ELSE Atou(TrimSpace(ch[j].term[1]))
        IN  /\ DOMAIN stacks = {key(j) : j \in done}
            /\ \A k \in DOMAIN stacks :
                 stacks[k] = SumSeq([j \in 1..Len(ch) |->
                                IF j \in done /\ key(j) = k THEN add(j) ELSE 0])
            /\ src = "example" => collapsed = DtraceExampleFolded

C8_Witness ==
    /\ Collapsed /\ family = "dtrace" /\ src = "example"
    /\ raw = DtraceExample
    /\ collapsed = DtraceExampleFolded

C8_WitnessSum ==
    /\ Collapsed /\ family = "dtrace"
    /\ raw = << <<"a">>, <<"2">>, <<"a">>, <<>> >>
    /\ collapsed = <<"a", " ", "3", "\n">>

(***************************************************************************)
(* C10: the folded output lists its records in strictly increasing         *)
(* byte-wise order of key, one per line as key, space, count, and no key   *)
(* twice.                                                                  *)
(***************************************************************************)
\* 0-based position of the last c in s, or -1
LastIndex(s, c) ==
    IF \E i \in 1..Len(s) : s[i] = c
    THEN (CHOOSE i \in 1..Len(s) : s[i] = c /\ \A j \in (i + 1)..Len(s) : s[j] # c) - 1
    ELSE -1

KeyOfLine(line) == Upto(line, LastIndex(line, " "))

CountFieldOfLine(line) == From(line, LastIndex(line, " ") + 1)

C10_SortedUniqueKeys ==
    (Collapsed /\ family \in {"perf", "dtrace"}) =>
        LET out == AllLines(collapsed) IN
        /\ collapsed = Flatten([i \in 1..Len(out) |-> out[i] \o <<"\n">>])
        /\ Len(out) = Cardinality(DOMAIN stacks)
        /\ \A i \in 1..Len(out) :
             /\ LastIndex(out[i], " ") >= 0
             /\ isCountLine(CountFieldOfLine(out[i]))
             /\ KeyOfLine(out[i]) \in DOMAIN stacks
             /\ Atou(CountFieldOfLine(out[i])) = stacks[KeyOfLine(out[i])]
        /\ \A i, j \in 1..Len(out) : i < j => Less(KeyOfLine(out[i]), KeyOfLine(out[j]))

C10_Witness ==
    /\ Collapsed /\ family = "dtrace"
    /\ Len(AllLines(collapsed)) >= 2
    /\ \E i \in 1..Len(raw) : \E j \in 1..Len(raw) :
         /\ i < j
         /\ raw[i] = <<" ", "m", Backquote, "b", "+", "1">>
         /\ raw[j] = <<"a">>

(***************************************************************************)
(* C6: feeding the output of a collapser to GenerateSVG's parser gives     *)
(* back every emitted record with the same ordered frame sequence and the  *)
(* same count, and root.value is the sum of the emitted counts.            *)
(* Refuted: a frame name holding a space or a semicolon is cut apart by    *)
(* the parser, and an emitted count of 0 is read back as 1.                *)
(***************************************************************************)
Built == pc = "done"

RECURSIVE SumOver(_, _)
SumOver(m, keys) ==
    IF keys = {} THEN 0
    ELSE LET k == CHOOSE x \in keys : TRUE IN m[k] + SumOver(m, keys \ {k})

C6_RoundTrip ==
    (Built /\ family \in {"perf", "dtrace"}) =>
        LET recs == DelimitedRecords(family, raw)
            out  == AllLines(collapsed)
            ok   == {i \in 1..Len(out) : ParseFolded(out[i]).ok}
        IN  /\ Cardinality(ok) = Cardinality(DOMAIN stacks)
            /\ \A r \in {recs[i] : i \in 1..Len(recs)} :
                 \E i \in ok :
                    /\ Split(ParseFolded(out[i]).stack, ";") = r.frames
                    /\ ParseFolded(out[i]).count = stacks[Join(r.frames, ";")]
            /\ root[<<>>] = SumOver(stacks, DOMAIN stacks)
            /\ totalSamples = SumOver(stacks, DOMAIN stacks)

(***************************************************************************)
(* C9: permuting the stack records of the raw input does not change the    *)
(* folded output: inputs holding the same multiset of records give the     *)
(* same bytes.                                                             *)
(* Refuted for CollapseDtrace: the record that ends the stream without a   *)
(* delimiter is dropped (C5), so moving another record to the end changes  *)
(* the output.                                                             *)
(***************************************************************************)
RECURSIVE ScanAll(_, _, _)
ScanAll(fam, st, lines) ==
    IF lines = <<>> THEN st
    ELSE ScanAll(fam,
                 IF fam = "perf" THEN PerfScanLine(st, Head(lines))
                 ELSE DtraceScanLine(st, Head(lines)),
                 Tail(lines))

\* every output CollapsePerf / CollapseDtrace can write for the given lines
CollapseOutputs(fam, lines) ==
    LET st0 == ScanAll(fam, [currentStack |-> <<>>, stacks |-> EmptyMap], lines)
        st  == IF fam = "perf" THEN PerfEnd(st0) ELSE DtraceEnd(st0)
    IN  {writeCollapsed(st.stacks, o) : o \in KeyOrders(st.stacks)}

Orderings(n) == {f \in [1..n -> 1..n] : \A i, j \in 1..n : i # j => f[i] # f[j]}

\* the chunks in the order f; a record that had no delimiter and is no longer
\* the last one is closed by a blank line
Rearranged(ch, f) ==
    Flatten([i \in 1..Len(ch) |->
               ch[f[i]].body \o
               (IF ch[f[i]].term = <<>> /\ i < Len(ch) THEN << <<>> >> ELSE ch[f[i]].term)])

C9_OrderIndependent ==
    (Collapsed /\ family \in {"perf", "dtrace"}) =>
        LET ch == Chunks(family, raw) IN
        \A f \in Orderings(Len(ch)) :
            CollapseOutputs(family, Rearranged(ch, f)) = {collapsed}

(***************************************************************************)
(* Vocabulary of the tree properties: the records of a folded-stack text   *)
(***************************************************************************)
\* the lines that have a count field, each with its frame sequence and the
\* text of the field
FoldedRecords(text) ==
    LET ls == SelectSeq(AllLines(text), LAMBDA l : Index(l, " ") >= 0) IN
    [i \in 1..Len(ls) |->
        [frames |-> Split(Upto(ls[i], Index(ls[i], " ")), ";"),
         field  |-> From(ls[i], Index(ls[i], " ") + 1)]]

\* the integer a count field states (0 when it states none)
StatedCount(field) == Sscanf(field, 0)

\* the same, with 0 and non-numbers counted as one sample
EffectiveCount(field) == IF StatedCount(field) = 0 THEN 1 ELSE StatedCount(field)

IsPrefix(p, fs) == Len(p) <= Len(fs) /\ Upto(fs, Len(p)) = p

ThroughStated(recs, p) ==
    SumSeq([i \in 1..Len(recs) |->
              IF IsPrefix(p, recs[i].frames) THEN StatedCount(recs[i].field) ELSE 0])

ThroughEffective(recs, p) ==
    SumSeq([i \in 1..Len(recs) |->
              IF IsPrefix(p, recs[i].frames) THEN EffectiveCount(recs[i].field) ELSE 0])

EndingAt(recs, p) ==
    SumSeq([i \in 1..Len(recs) |->
              IF recs[i].frames = p THEN EffectiveCount(recs[i].field) ELSE 0])

ChildrenValue(tree, p) ==
    LET cs == SetToSeq(ChildPaths(tree, p)) IN SumSeq([i \in 1..Len(cs) |-> tree[cs[i]]])

(***************************************************************************)
(* C2 as stated: every node's value (root included) is the sum of the      *)
(* counts of the input records whose frame sequence has the node's path as *)
(* a prefix, and root.value and the reported total are the sum of all      *)
(* record counts.  Refuted by a record whose count field is 0.             *)
(***************************************************************************)
C2_ValueIsStatedSum ==
    Built =>
        LET recs == FoldedRecords(collapsed) IN
        /\ \A p \in DOMAIN root : root[p] = ThroughStated(recs, p)
        /\ totalSamples = ThroughStated(recs, <<>>)

(***************************************************************************)
(* C2 amended: with a record counted as the integer its count field        *)
(* starts with, and as 1 when that integer is 0 or the field starts with   *)
(* no integer, every node's value is the sum of the counts of the records  *)
(* whose frame sequence has the node's path as a prefix; the nodes are the *)
(* root and the non-empty prefixes of the records; root.value and the      *)
(* total are the sum of all counts.                                        *)
(***************************************************************************)
C2_ValueIsEffectiveSum ==
    Built =>
        LET recs == FoldedRecords(collapsed) IN
        /\ DOMAIN root =
              {<<>>} \cup UNION {{Upto(recs[i].frames, n) : n \in 1..Len(recs[i].frames)} :
                                   i \in 1..Len(recs)}
        /\ \A p \in DOMAIN root : root[p] = ThroughEffective(recs, p)
        /\ totalSamples = ThroughEffective(recs, <<>>)
        /\ totalSamples = root[<<>>]

C2_Witness ==
    /\ Built /\ family = "folded"
    /\ raw = << <<"a", ";", "b", " ", "2">>, <<"a", ";", "c", " ", "1">>, <<"a", " ", "0">> >>
    /\ root[<<>>] = 4
    /\ root[<< <<"a">> >>] = 4
    /\ root[<< <<"a">>, <<"b">> >>] = 2
    /\ root[<< <<"a">>, <<"c">> >>] = 1
    /\ totalSamples = 4

(***************************************************************************)
(* C3 as stated: every node with at least one child has a value equal to   *)
(* the sum of its children's values.  Refuted by a stack that ends at a    *)
(* node through which a longer stack passes.                               *)
(***************************************************************************)
C3_ValueIsChildrenSum ==
    Built =>
        \A p \in DOMAIN root :
            ChildPaths(root, p) # {} => root[p] = ChildrenValue(root, p)

(***************************************************************************)
(* C3 amended: every node's value is the sum of its children's values plus *)
(* the counts of the records whose frame sequence ends exactly at the      *)
(* node; so a node at which no record ends equals the sum of its children. *)
(***************************************************************************)
C3_ValueIsChildrenPlusSelf ==
    Built =>
        LET recs == FoldedRecords(collapsed) IN
        \A p \in DOMAIN root :
            /\ root[p] = ChildrenValue(root, p) + EndingAt(recs, p)
            /\ (\A i \in 1..Len(recs) : recs[i].frames # p) =>
                  root[p] = ChildrenValue(root, p)

C3_Witness ==
    /\ Built /\ family = "folded"
    /\ raw = << <<"a", " ", "1">>, <<"a", ";", "b", " ", "2">> >>
    /\ root[<< <<"a">> >>] = 3
    /\ root[<< <<"a">>, <<"b">> >>] = 2
    /\ root[<<>>] = 3

(***************************************************************************)
(* C4 as stated: for any rendered node the widths of its children's        *)
(* rectangles sum to at most the node's own width.  Refuted: children      *)
(* whose share floors to 0 are raised to 1 pixel each.                     *)
(***************************************************************************)
IsRect(i) == svg[i].kind = "rect"

ChildRectWidths(i) ==
    SumSeq([j \in 1..Len(svg) |->
              IF /\ IsRect(j)
                 /\ Len(svg[j].path) = Len(svg[i].path) + 1
                 /\ IsPrefix(svg[i].path, svg[j].path)
              THEN svg[j].width ELSE 0])

C4_ChildrenFitParent ==
    Built =>
        \A i \in 1..Len(svg) : IsRect(i) => ChildRectWidths(i) <= svg[i].width

(***************************************************************************)
(* C4 amended: for any rendered node whose children all have a positive    *)
(* value and together at most the node's value (every node of a tree built *)
(* from positive counts), the widths of its children's rectangles sum to   *)
(* at most the node's width plus the number of children whose share        *)
(* floor(width * child.value / node.value) is 0 and was raised to 1; so    *)
(* they fit the node's width whenever no child is raised.                  *)
(***************************************************************************)
RaisedChildren(i) ==
    {c \in ChildPaths(root, svg[i].path) :
        (svg[i].width * root[c]) \div root[svg[i].path] = 0}

C4_ChildrenFitParentPlusRaised ==
    Built =>
        \A i \in 1..Len(svg) :
            (/\ IsRect(i)
             /\ \A c \in ChildPaths(root, svg[i].path) : root[c] > 0
             /\ ChildrenValue(root, svg[i].path) <= root[svg[i].path])
            => /\ ChildRectWidths(i) <= svg[i].width + Cardinality(RaisedChildren(i))
               /\ RaisedChildren(i) = {} => ChildRectWidths(i) <= svg[i].width

C4_Witness ==
    /\ Built /\ err = ""
    /\ \E i \in 1..Len(svg) :
         /\ IsRect(i)
         /\ svg[i].path = << <<"a">> >>
         /\ svg[i].width = 1
         /\ Cardinality(RaisedChildren(i)) = 2
         /\ ChildRectWidths(i) = 2
         /\ \A c \in ChildPaths(root, svg[i].path) : root[c] > 0
         /\ ChildrenValue(root, svg[i].path) <= root[svg[i].path]

(***************************************************************************)
(* C11: every record emitted by either collapser carries a positive        *)
(* integer count, at least 1, for every raw input.                         *)
(* Refuted for CollapseDtrace: a count line that reads 0 adds 0 to the     *)
(* entry of its stack, which creates the entry, and writeCollapsed emits   *)
(* it with the count 0.                                                    *)
(***************************************************************************)
C11_PositiveCounts ==
    (Collapsed /\ family \in {"perf", "dtrace"}) =>
        \A j \in 1..Len(AllLines(collapsed)) :
            LET field == CountFieldOfLine(AllLines(collapsed)[j]) IN
            /\ field # <<>>
            /\ \A i \in 1..Len(field) : IsDigit(field[i])
            /\ Atou(field) >= 1

(***************************************************************************)
(* C20: a folded-stack record whose frame list is empty (nothing before    *)
(* the space of the count field) increments only the root: the step of the *)
(* parse loop that reads it creates no node and changes no other value.    *)
(* Refuted: strings.Split of the empty key yields one empty name, so the   *)
(* loop creates and increments a child of the root named "".               *)
(***************************************************************************)
EmptyKeyNext ==
    /\ pc = "parse" /\ unread # <<>>
    /\ LET line == ScanLine(unread).line IN line # <<>> /\ Head(line) = " "

C20_EmptyKeyOnlyRoot ==
    [][EmptyKeyNext =>
         /\ DOMAIN root' = DOMAIN root
         /\ \A p \in DOMAIN root \ {<<>>} : root'[p] = root[p]
         /\ root'[<<>>] =
              root[<<>>] + EffectiveCount(Tail(ScanLine(unread).line))]_vars

(***************************************************************************)
(* Vocabulary of the rendering properties                                  *)
(***************************************************************************)
\* the total sample count of a folded-stack text
TotalOfText(text) == ThroughEffective(FoldedRecords(text), <<>>)

Siblings(p, q) ==
    /\ p # q /\ Len(p) = Len(q) /\ Len(p) >= 1
    /\ Upto(p, Len(p) - 1) = Upto(q, Len(q) - 1)

C13_RootRectDrawn ==
    (Built /\ TotalOfText(collapsed) # 0) =>
        /\ err = ""
        /\ \E i \in 1..Len(svg) :
             /\ svg[i].kind = "rect" /\ svg[i].path = <<>>
             /\ svg[i].x = margin
             /\ svg[i].width = opts.Width - 2 * margin

(***************************************************************************)
(* C14: rendering the same folded-stack text with the same RenderSpec      *)
(* yields the same image whatever order the children maps deliver their    *)
(* keys in, during depth computation and rendering: every other iteration  *)
(* order produces exactly the error and the output of this run.            *)
(***************************************************************************)
C14_RenderDeterministic ==
    Built =>
        \A order \in RangeOrders(root) :
            GenerateSVGOutput(root, totalSamples, opts, order) =
                [err |-> err, svg |-> svg]

C14_Witness ==
    /\ Built /\ err = ""
    /\ Cardinality(RangeOrders(root)) > 1
    /\ \E i, j \in 1..Len(svg) :
         /\ i < j
         /\ svg[i].kind = "rect" /\ svg[j].kind = "rect"
         /\ Siblings(svg[i].path, svg[j].path)
         /\ Less(svg[i].path[Len(svg[i].path)], svg[j].path[Len(svg[j].path)])

(***************************************************************************)
(* Capture (capture_linux.go, capture_darwin.go).                          *)
(*                                                                         *)
(* opts.Duration is kept in milliseconds.  cmd.Run() is two steps, the     *)
(* start of the process and its exit, so that what runs at the same time   *)
(* and what is started after what can be observed.                         *)
(***************************************************************************)
Platforms == {"linux", "darwin"}

Executables == {"perf", "dtrace", "sample"}

DurationSet == {-1000, 0, 500, 999, 1000, 1500, 2000, 10000}

PIDSet == {-1, 0, 7}

\* what a failing tool may have written to its standard error
StderrTexts == {"", "Permission denied"}

\* exec.LookPath(file) succeeding always, whatever PATH holds
LookPathAlways(onPath, file) == file \in Executables

\* exec.LookPath(file): err == nil
LookPath(onPath, file) == file \in onPath

\* int(opts.Duration.Seconds()) without the test that raises it to 1
durSecUnclamped(ms) == TruncDiv(ms, 1000)

\* durSec: Seconds() is the whole seconds plus the fraction, int() truncates
\* toward zero, and a value below 1 becomes 1
durSecOf(ms) == LET s == TruncDiv(ms, 1000) IN IF s < 1 THEN 1 ELSE s

\* capture_linux.go, lines 26-40: perf record; -p PID when PID > 0, else -a
perfRecord(pid, d) ==
    [name |-> "perf record", file |-> "perf",
     pid |-> IF pid > 0 THEN pid ELSE 0, sleep |-> d, stderr |-> TRUE]

\* capture_linux.go, lines 46-48: perf script; only Stdout is set
perfScript ==
    [name |-> "perf script", file |-> "perf", pid |-> 0, sleep |-> 0, stderr |-> FALSE]

\* captureDtrace, lines 34-44: the pid predicate is left out when PID is 0
dtraceCmd(pid, d) ==
    [name |-> "dtrace", file |-> "dtrace", pid |-> pid, sleep |-> d, stderr |-> TRUE]

\* captureSample, lines 60-64: only Stdout is set
sampleCmd(pid, d) ==
    [name |-> "sample", file |-> "sample", pid |-> pid, sleep |-> d, stderr |-> FALSE]

\* the choice with the sampler taken whether or not a PID was given
darwinBackendAnyPID(onPath, pid) ==
    IF LookPath(onPath, "dtrace") THEN "dtrace"
    ELSE IF LookPath(onPath, "sample") THEN "sample"
    ELSE "none"

\* capture_darwin.go, lines 20-30: the backend platformCapture calls
darwinBackend(onPath, pid) ==
    IF LookPath(onPath, "dtrace") THEN "dtrace"
    ELSE IF LookPath(onPath, "sample") /\ pid > 0 THEN "sample"
    ELSE "none"

errPerfNotFound == <<"perf not found: install linux-tools-common or equivalent">>

errNoTools ==
    <<"no profiling tools available: dtrace requires root, sample requires a PID">>

\* the error returned when c.Run() failed with the error cause, text being
\* what the tool wrote to its standard error
runError(c, cause, text) ==
    IF c.stderr THEN <<c.name, " failed: ", cause, " (", text, ")">>
    ELSE <<c.name, " failed: ", cause>>

\* what follows c.Run() when perf record's error is not tested
afterRunRecordUnchecked(c, ok) ==
    IF c.name = "perf record" THEN "script"
    ELSE IF ~ok THEN "fail"
    ELSE "collapse"

\* what platformCapture does once c.Run() has returned
afterRun(c, ok) ==
    IF ~ok THEN "fail"
    ELSE IF c.name = "perf record" THEN "script"
    ELSE "collapse"

\* what a tool that exits with success may have written to its standard output
Stdouts(c) ==
    IF c.name = "perf script" THEN {<<>>, PerfRecordExample}
    ELSE IF c.name = "perf record" THEN {<<>>}
    ELSE {<<>>, DtraceExample}

\* the collapser the output of c is given to
Collapser(c) == IF c.name = "perf script" THEN "perf" ELSE "dtrace"

\* the error of a Run that failed
RunCause == IF ctxDone THEN "context canceled" ELSE "exit status 1"

PipelineIdle ==
    /\ family = "none" /\ src = "any" /\ pc = "idle"
    /\ raw = <<>>
    /\ currentStack = <<>>
    /\ stacks = EmptyMap
    /\ collapsed = <<>>
    /\ unread = <<>>
    /\ root = EmptyMap
    /\ totalSamples = 0
    /\ opts = [Width |-> 0, Height |-> 0]
    /\ svg = <<>>
    /\ err = ""

InitCapture ==
    /\ PipelineIdle
    /\ FramesIdle /\ RunAllIdle /\ SparklineIdle
    /\ platform \in Platforms
    /\ envPath \in SUBSET Executables
    /\ request \in [Duration : DurationSet, PID : PIDSet]
    /\ ctxDone = FALSE
    /\ cpc = "enter"
    /\ cmd = noCmd
    /\ durSec = 0
    /\ procs = <<>>
    /\ running = {}
    /\ exits = <<>>
    /\ stdout = <<>>
    /\ result = <<>>
    /\ capErr = <<>>

\* capture_linux.go, lines 14-38: up to the first exec.Cmd
PlatformCaptureLinux ==
    /\ cpc = "enter" /\ platform = "linux"
    /\ IF ~LookPath(envPath, "perf")
       THEN /\ cpc' = "returned"
            /\ capErr' = errPerfNotFound
            /\ UNCHANGED <<cmd, durSec>>
       ELSE /\ durSec' = durSecOf(request.Duration)
            /\ cmd' = perfRecord(request.PID, durSecOf(request.Duration))
            /\ cpc' = "run"
            /\ UNCHANGED capErr
    /\ UNCHANGED <<platform, envPath, request, ctxDone, procs, running, exits,
                   stdout, result>>
    /\ UNCHANGED pipelineVars
    /\ UNCHANGED auxVars

\* capture_darwin.go, lines 14-31, 33-41 and 59-62: up to the exec.Cmd
PlatformCaptureDarwin ==
    /\ cpc = "enter" /\ platform = "darwin"
    /\ durSec' = durSecOf(request.Duration)
    /\ LET backend == darwinBackend(envPath, request.PID) IN
       IF backend = "none"
       THEN /\ cpc' = "returned"
            /\ capErr' = errNoTools
            /\ UNCHANGED cmd
       ELSE /\ cmd' = IF backend = "dtrace"
                      THEN dtraceCmd(request.PID, durSecOf(request.Duration))
                      ELSE sampleCmd(request.PID, durSecOf(request.Duration))
            /\ cpc' = "run"
            /\ UNCHANGED capErr
    /\ UNCHANGED <<platform, envPath, request, ctxDone, procs, running, exits,
                   stdout, result>>
    /\ UNCHANGED pipelineVars
    /\ UNCHANGED auxVars

\* the statements after cmd.Run() has returned, text being the standard
\* error of the process
RunReturned(ok, text) ==
    LET step == afterRun(cmd, ok) IN
    /\ step = "fail" =>
          /\ cpc' = "returned"
          /\ capErr' = runError(cmd, RunCause, text)
          /\ UNCHANGED cmd
    /\ step = "script" =>
          /\ cpc' = "run"
          /\ cmd' = perfScript
          /\ UNCHANGED capErr
    /\ step = "collapse" =>
          /\ cpc' = "collapse"
          /\ UNCHANGED <<cmd, capErr>>

\* cmd.Run(), first half: Start refuses when ctx is done or the file is not
\* found, else the process is started
CmdStart ==
    /\ cpc = "run"
    /\ IF ctxDone \/ ~LookPath(envPath, cmd.file)
       THEN /\ RunReturned(FALSE, "")
            /\ UNCHANGED <<procs, running>>
       ELSE /\ procs' = Append(procs, cmd)
            /\ running' = running \cup {cmd.name}
            /\ cpc' = "wait"
            /\ UNCHANGED <<cmd, capErr>>
    /\ UNCHANGED <<platform, envPath, request, ctxDone, durSec, exits, stdout, result>>
    /\ UNCHANGED pipelineVars
    /\ UNCHANGED auxVars

\* cmd.Run(), second half: the process exits, with success or with failure
\* (a cancelled ctx kills it unless it has finished by itself)
CmdExit ==
    /\ cpc = "wait"
    /\ \E ok \in BOOLEAN :
       \E text \in (IF ok THEN {""} ELSE StderrTexts) :
       \E out \in (IF ok THEN Stdouts(cmd) ELSE {<<>>}) :
          /\ exits' = Append(exits, [name |-> cmd.name, ok |-> ok, stderr |-> text])
          /\ running' = running \ {cmd.name}
          /\ stdout' = out
          /\ RunReturned(ok, text)
    /\ UNCHANGED <<platform, envPath, request, ctxDone, durSec, procs, result>>
    /\ UNCHANGED pipelineVars
    /\ UNCHANGED auxVars

\* capture_linux.go, lines 53-60; captureDtrace, lines 50-56; captureSample,
\* lines 70-77: the output is collapsed and the result returned
CollapseAndReturn ==
    /\ cpc = "collapse"
    /\ \E folded \in CollapseOutputs(Collapser(cmd), stdout) :
         result' = <<[CollapsedStacks |-> folded, Duration |-> durSec * 1000]>>
    /\ cpc' = "returned"
    /\ UNCHANGED <<platform, envPath, request, ctxDone, cmd, durSec, procs, running,
                   exits, stdout, capErr>>
    /\ UNCHANGED pipelineVars
    /\ UNCHANGED auxVars

\* the caller cancels ctx
CtxCancel ==
    /\ cpc \in {"enter", "run", "wait", "collapse"} /\ ~ctxDone
    /\ ctxDone' = TRUE
    /\ UNCHANGED <<platform, envPath, request, cpc, cmd, durSec, procs, running,
                   exits, stdout, result, capErr>>
    /\ UNCHANGED pipelineVars
    /\ UNCHANGED auxVars

NextCapture ==
    \/ PlatformCaptureLinux
    \/ PlatformCaptureDarwin
    \/ CmdStart
    \/ CmdExit
    \/ CollapseAndReturn
    \/ CtxCancel

SpecCapture == InitCapture /\ [][NextCapture]_vars

(***************************************************************************)
(* Vocabulary of the capture properties                                    *)
(***************************************************************************)
Returned == cpc = "returned"

\* the message made of parts holds the text
Includes(parts, text) == text = "" \/ \E i \in 1..Len(parts) : parts[i] = text

ProcNames(ps) == {ps[i].name : i \in 1..Len(ps)}

AllOk(es) == \A i \in 1..Len(es) : es[i].ok

Profilers == {"perf record", "dtrace", "sample"}

(***************************************************************************)
(* C15: whenever a tool run by Capture exits with failure, the error       *)
(* Capture returns includes what that tool wrote to its standard error.    *)
(* Refuted for perf script and for sample: their exec.Cmd has no Stderr    *)
(* set, and the error is built from the exit error alone.                  *)
(***************************************************************************)
C15_StderrInError ==
    (Returned /\ exits # <<>> /\ ~exits[Len(exits)].ok) =>
        /\ capErr # <<>>
        /\ Includes(capErr, exits[Len(exits)].stderr)

(***************************************************************************)
(* C16: each tool is started at most once and never while another runs;    *)
(* once a tool exits with failure or the context is cancelled no further   *)
(* tool is started and Capture returns a nil result with an error; perf    *)
(* script is started only after perf record exited with success, and a     *)
(* result is returned only after every tool started has succeeded.         *)
(* Refuted in its cancellation clause: a cancellation that arrives after   *)
(* the last tool has exited with success is not looked at.                 *)
(***************************************************************************)
StartedInTurn ==
    /\ Cardinality(running') <= 1
    /\ procs' # procs =>
         /\ running = {} /\ ~ctxDone /\ AllOk(exits) /\ capErr = <<>>
         /\ Len(procs') = Len(procs) + 1
         /\ SubSeq(procs', 1, Len(procs)) = procs
         /\ procs'[Len(procs')].name \notin ProcNames(procs)
         /\ procs'[Len(procs')].name = "perf script" =>
               (Len(exits) = 1 /\ exits[1].name = "perf record" /\ exits[1].ok)

FailureEndsCapture ==
    /\ ~AllOk(exits') => (cpc' = "returned" /\ running' = {})
    /\ (cpc' = "returned" /\ ~AllOk(exits')) => (result' = <<>> /\ capErr' # <<>>)
    /\ capErr' # <<>> => (cpc' = "returned" /\ result' = <<>>)
    /\ result' # <<>> =>
         /\ cpc' = "returned" /\ capErr' = <<>> /\ exits' # <<>> /\ AllOk(exits')
         /\ platform = "linux" =>
               (Len(exits') = 2 /\ exits'[1].name = "perf record"
                                /\ exits'[2].name = "perf script")

C16_NoToolAfterFailureOrCancel ==
    [][/\ StartedInTurn
       /\ FailureEndsCapture
       /\ (ctxDone' /\ cpc' = "returned") => (result' = <<>> /\ capErr' # <<>>)]_vars

(***************************************************************************)
(* C16 amended: each tool is started at most once and never while another  *)
(* runs; no tool is started once the context is cancelled; once a run      *)
(* fails (the tool exits with failure, is killed by the cancellation, or   *)
(* is refused its start because the context is already cancelled) no       *)
(* further tool is started and Capture returns a nil result with an error; *)
(* perf script is started only after perf record exited with success, and  *)
(* a result is returned only after every tool started has succeeded.       *)
(***************************************************************************)
C16_NoToolAfterFailedRun ==
    [][/\ StartedInTurn
       /\ FailureEndsCapture
       /\ (ctxDone /\ cpc = "run") => (cpc' = "returned" => capErr' # <<>>)]_vars

C16_Witness ==
    /\ Returned /\ platform = "linux"
    /\ Len(procs) = 1 /\ procs[1].name = "perf record"
    /\ Len(exits) = 1 /\ ~exits[1].ok
    /\ result = <<>> /\ capErr # <<>>

(***************************************************************************)
(* C17: when the required profiler is not on PATH (Linux: perf; macOS:     *)
(* neither dtrace nor sample), Capture returns the tool-unavailable error  *)
(* at once and no process is ever started for the request.                 *)
(***************************************************************************)
RequiredAbsent ==
    \/ platform = "linux" /\ "perf" \notin envPath
    \/ platform = "darwin" /\ "dtrace" \notin envPath /\ "sample" \notin envPath

C17_NoProcessWithoutTool ==
    RequiredAbsent =>
        /\ procs = <<>> /\ running = {} /\ exits = <<>>
        /\ cpc \in {"enter", "returned"}
        /\ Returned =>
              /\ result = <<>>
              /\ capErr = IF platform = "linux" THEN errPerfNotFound ELSE errNoTools

C17_Witness ==
    /\ Returned /\ platform = "linux"
    /\ envPath = {"dtrace", "sample"}
    /\ procs = <<>> /\ result = <<>> /\ capErr = errPerfNotFound

(***************************************************************************)
(* C18: on macOS the backend is chosen once: dtrace whenever it is on      *)
(* PATH; otherwise sample, and only when it is on PATH and a PID > 0 was   *)
(* given; otherwise Capture fails without running anything.                *)
(***************************************************************************)
C18_DarwinBackend ==
    platform = "darwin" =>
        /\ Len(procs) <= 1
        /\ \A i \in 1..Len(procs) :
             IF "dtrace" \in envPath THEN procs[i].name = "dtrace"
             ELSE /\ procs[i].name = "sample"
                  /\ "sample" \in envPath /\ request.PID > 0
                  /\ procs[i].pid = request.PID
        /\ ("dtrace" \notin envPath /\ ("sample" \notin envPath \/ request.PID <= 0)) =>
              /\ procs = <<>> /\ cpc \in {"enter", "returned"}
              /\ Returned => (result = <<>> /\ capErr = errNoTools)
        /\ (("dtrace" \in envPath \/ ("sample" \in envPath /\ request.PID > 0))
               /\ cpc \in {"wait", "collapse"}) => Len(procs) = 1
        /\ (("dtrace" \in envPath \/ ("sample" \in envPath /\ request.PID > 0))
               /\ Returned /\ procs = <<>>) => (ctxDone /\ capErr # errNoTools)

C18_Witness ==
    /\ Returned /\ platform = "darwin"
    /\ envPath = {"sample", "perf"} /\ request.PID = 7
    /\ Len(procs) = 1 /\ procs[1].name = "sample"
    /\ result # <<>>

(***************************************************************************)
(* C19: the profiler runs for the requested number of whole seconds, a     *)
(* request below one second counting as 1: the duration handed to the tool *)
(* and the Duration of the result are at least one second, and equal the   *)
(* request whenever it is a whole number of seconds >= 1.                  *)
(***************************************************************************)
SecondsAreRequested(sec) ==
    /\ sec >= 1
    /\ request.Duration < 1000 => sec = 1
    /\ request.Duration >= 1000 =>
          (sec * 1000 <= request.Duration /\ request.Duration < (sec + 1) * 1000)
    /\ (request.Duration >= 1000 /\ request.Duration % 1000 = 0) =>
          sec * 1000 = request.Duration

C19_WholeSeconds ==
    /\ \A i \in 1..Len(procs) :
          procs[i].name \in Profilers => SecondsAreRequested(procs[i].sleep)
    /\ \A i \in 1..Len(result) :
          /\ result[i].Duration % 1000 = 0
          /\ SecondsAreRequested(result[i].Duration \div 1000)
          /\ \E j \in 1..Len(procs) :
                procs[j].name \in Profilers /\ procs[j].sleep * 1000 = result[i].Duration

C19_Witness ==
    /\ Returned /\ request.Duration = 500
    /\ \E i \in 1..Len(procs) : procs[i].name \in Profilers /\ procs[i].sleep = 1
    /\ result # <<>> /\ result[1].Duration = 1000

(***************************************************************************)
(* Vocabulary of the layout properties                                     *)
(***************************************************************************)
\* floor(a / b) for b # 0
FloorDiv(a, b) == IF b > 0 THEN a \div b ELSE (0 - a) \div (0 - b)

\* rectangle j is the rectangle of a child of the node of rectangle i
ChildRect(i, j) ==
    /\ svg[i].kind = "rect" /\ svg[j].kind = "rect"
    /\ Len(svg[j].path) = Len(svg[i].path) + 1
    /\ IsPrefix(svg[i].path, svg[j].path)

RootDrawn == \E i \in 1..Len(svg) : svg[i].kind = "rect" /\ svg[i].path = <<>>

(***************************************************************************)
(* C21: every node value of the tree GenerateSVG builds is a non-negative  *)
(* sample count and every created non-root node has a value of at least 1, *)
(* for any folded-stack text.                                              *)
(* Refuted: the count is read with %d into an int, so a negative count     *)
(* field is accepted and added to every node of the record.                *)
(***************************************************************************)
C21_ValuesUnsigned ==
    \A p \in DOMAIN root :
        /\ root[p] >= 0
        /\ p # <<>> => root[p] >= 1

(***************************************************************************)
(* C22: the width of each child rectangle is                               *)
(* floor(parentWidth * child.value / parent.value), raised to 1 when that  *)
(* floor is 0, parentWidth being the width of the parent's rectangle.      *)
(* Refuted with the negative values of C21: a negative share is drawn 1    *)
(* pixel wide.                                                             *)
(***************************************************************************)
C22_ChildWidthIsFloor ==
    Built =>
        \A i, j \in 1..Len(svg) :
            ChildRect(i, j) =>
                LET share == FloorDiv(svg[i].width * root[svg[j].path],
                                      root[svg[i].path])
                IN  svg[j].width = IF share = 0 THEN 1 ELSE share

(***************************************************************************)
(* C23: whenever the root rectangle is drawn, every node of the tree is    *)
(* emitted as a rectangle of width at least 1, at any depth.               *)
(* Refuted with the negative counts of C21: a node whose counts cancel to  *)
(* 0 is skipped by renderFrame, with its whole subtree.                    *)
(***************************************************************************)
C23_EveryNodeDrawn ==
    (Built /\ RootDrawn) =>
        \A p \in DOMAIN root :
            \E i \in 1..Len(svg) :
                svg[i].kind = "rect" /\ svg[i].path = p /\ svg[i].width >= 1

(***************************************************************************)
(* C24: the children of a node are placed left to right in ascending name  *)
(* order without gap or overlap: the first child's x is the parent's x and *)
(* each following child's x is the previous child's x plus its width.      *)
(* Refuted with the negative counts of C21: a child whose value is 0 is    *)
(* not drawn but still takes 1 pixel, which leaves a gap.                  *)
(***************************************************************************)
C24_ChildrenAdjacent ==
    Built =>
        \A i \in 1..Len(svg) :
            LET kids == {j \in 1..Len(svg) : ChildRect(i, j)} IN
            \A k \in kids :
                LET before == {j \in kids : j < k} IN
                IF before = {}
                THEN svg[k].x = svg[i].x
                ELSE LET j == CHOOSE m \in before : \A n \in before : n <= m IN
                     /\ Less(svg[j].path[Len(svg[j].path)], svg[k].path[Len(svg[k].path)])
                     /\ svg[k].x = svg[j].x + svg[j].width

(***************************************************************************)
(* C27: every rectangle emitted lies horizontally inside the chart area:   *)
(* x >= margin and x + width <= image width - margin, for any tree and any *)
(* image width.                                                            *)
(* Refuted: a child whose share floors to 0 is drawn 1 pixel wide, so the  *)
(* children of a narrow node run past the right edge of the chart.         *)
(***************************************************************************)
C27_InsideChart ==
    Built =>
        \A i \in 1..Len(svg) :
            svg[i].kind = "rect" =>
                /\ svg[i].x >= margin
                /\ svg[i].x + svg[i].width <= opts.Width - margin

(***************************************************************************)
(* C26: a delimiter reached with no frames collected (a blank line, or in  *)
(* format B a digits-only line, right after another delimiter or at the    *)
(* start of the stream) adds no record and leaves every other count        *)
(* unchanged: the output is the output of the stream without it.           *)
(***************************************************************************)
EmptyRecord(fam, c) == c.term # <<>> /\ FramesInLineOrder(fam, c.body) = <<>>

\* the lines of the chunks, the chunk i left out
WithoutChunk(ch, i) ==
    Flatten([j \in 1..Len(ch) |-> IF j = i THEN <<>> ELSE ch[j].body \o ch[j].term])

C26_EmptyRecordIgnored ==
    (Collapsed /\ family \in {"perf", "dtrace"}) =>
        LET ch == Chunks(family, raw) IN
        \A i \in 1..Len(ch) :
            EmptyRecord(family, ch[i]) =>
                CollapseOutputs(family, WithoutChunk(ch, i)) = {collapsed}

C26_Witness ==
    /\ Collapsed /\ family = "dtrace"
    /\ raw = << <<"2">>, <<"a">>, <<>>, <<>> >>
    /\ collapsed = <<"a", " ", "1", "\n">>

(***************************************************************************)
(* C27 amended: every rectangle emitted has x >= margin, and the root's    *)
(* rectangle spans the chart area exactly, from margin to image width -    *)
(* margin; a child's rectangle lies inside its parent's rectangle whenever *)
(* the children of that parent all have a positive value, together at most *)
(* the parent's value, and none of their widths was raised to 1.  A child  *)
(* raised to 1 pixel may run past its parent and past the chart area.      *)
(***************************************************************************)
C27_InsideParentUnlessRaised ==
    Built =>
        \A i \in 1..Len(svg) :
            svg[i].kind = "rect" =>
                /\ svg[i].x >= margin
                /\ svg[i].path = <<>> =>
                      /\ svg[i].x = margin
                      /\ svg[i].x + svg[i].width = opts.Width - margin
                /\ \A j \in 1..Len(svg) :
                      (/\ ChildRect(j, i)
                       /\ \A c \in ChildPaths(root, svg[j].path) : root[c] > 0
                       /\ ChildrenValue(root, svg[j].path) <= root[svg[j].path]
                       /\ RaisedChildren(j) = {})
                      => /\ svg[i].x >= svg[j].x
                         /\ svg[i].x + svg[i].width <= svg[j].x + svg[j].width

C27_Witness ==
    /\ Built /\ opts.Width = 24
    /\ \E i, j \in 1..Len(svg) :
         /\ ChildRect(j, i)
         /\ svg[j].path = << <<"a">> >> /\ svg[j].width = 4
         /\ svg[i].path = << <<"a">>, <<"c">> >>
         /\ RaisedChildren(j) = {}
         /\ svg[i].x = margin + 2 /\ svg[i].width = 1

(***************************************************************************)
(* C28: when the image height is left unset it is                          *)
(* (maxDepth + 2) * 16 + 40 + 20, and every rectangle lies vertically      *)
(* inside the image below the 40-pixel header: the root's row is the       *)
(* lowest, a node at depth d is drawn d rows of 16 pixels above it, and    *)
(* the top edge of the deepest row is at y >= 40.                          *)
(***************************************************************************)
DeepestLevel(tree) ==
    CHOOSE d \in {Len(p) : p \in DOMAIN tree} : \A p \in DOMAIN tree : Len(p) <= d

C28_RowsInsideImage ==
    (Built /\ err = "" /\ opts.Height = 0) =>
        LET height == (DeepestLevel(root) + 2) * 16 + 40 + 20 IN
        /\ svg[1].kind = "header" /\ svg[1].height = height
        /\ \A i \in 1..Len(svg) :
             svg[i].kind = "rect" =>
                /\ svg[i].depth = Len(svg[i].path)
                /\ svg[i].y = (height - 20 - 16) - 16 * Len(svg[i].path)
                /\ svg[i].y >= 40
                /\ svg[i].y + svg[i].height <= height
                /\ svg[i].height < 16

C28_Witness ==
    /\ Built /\ err = "" /\ opts.Height = 0
    /\ svg[1].height = 124
    /\ \E i, j \in 1..Len(svg) :
         /\ svg[i].kind = "rect" /\ svg[i].path = <<>> /\ svg[i].y = 88
         /\ svg[j].kind = "rect" /\ Len(svg[j].path) = 2 /\ svg[j].y = 56

(***************************************************************************)
(* Frame extraction on its own: one frame line of either format, its       *)
(* symbol drawn from the texts over a letter, the plus sign and a digit.   *)
(***************************************************************************)
MaxSymbolLen == 4

SymbolBytes == {"s", "+", "1"}

RECURSIVE TextsOfLen(_)
TextsOfLen(n) ==
    IF n = 0 THEN {<<>>}
    ELSE {Append(t, b) : t \in TextsOfLen(n - 1), b \in SymbolBytes}

Symbols == UNION {TextsOfLen(n) : n \in 1..MaxSymbolLen}

\* the line of a perf script dump: tab, address, symbol+offset, module
PerfFrameLine(sym) == <<"\t", "0", " ">> \o sym \o <<" ", "(", "m", ")">>

\* the line of a dtrace ustack(): indentation, module, backquote, symbol+offset
DtraceFrameLine(sym) == <<" ", " ", "m", Backquote>> \o sym

InitFrames ==
    /\ PipelineIdle /\ CaptureIdle /\ RunAllIdle /\ SparklineIdle
    /\ fnFamily \in {"perf", "dtrace"}
    /\ fnSymbol \in Symbols
    /\ fnName = <<>>
    /\ fnDone = FALSE

\* CollapsePerf, lines 38-49, on the frame line of the symbol
ExtractPerf ==
    /\ fnFamily = "perf" /\ ~fnDone
    /\ fnName' = PerfFrame(PerfFrameLine(fnSymbol))[1]
    /\ fnDone' = TRUE
    /\ UNCHANGED <<fnFamily, fnSymbol>>
    /\ UNCHANGED <<pipelineVars, captureVars, runAllVars, sparklineVars>>

\* CollapseDtrace, lines 72 and 96-106, on the frame line of the symbol
ExtractDtrace ==
    /\ fnFamily = "dtrace" /\ ~fnDone
    /\ fnName' = DtraceFrame(TrimSpace(DtraceFrameLine(fnSymbol)))
    /\ fnDone' = TRUE
    /\ UNCHANGED <<fnFamily, fnSymbol>>
    /\ UNCHANGED <<pipelineVars, captureVars, runAllVars, sparklineVars>>

NextFrames == ExtractPerf \/ ExtractDtrace

SpecFrames == InitFrames /\ [][NextFrames]_vars

(***************************************************************************)
(* C25: the collapsers strip only a trailing +<offset> suffix from the     *)
(* symbol; a symbol that itself holds a plus sign before the offset keeps  *)
(* everything up to the final offset suffix.                               *)
(* Refuted: both collapsers cut the name at its first plus sign (when that *)
(* is not its first byte), whatever follows.                               *)
(***************************************************************************)
IsOffset(t) == t # <<>> /\ \A i \in 1..Len(t) : IsDigit(t[i])

\* the symbol is a non-empty name followed by +<offset>
HasTrailingOffset(sym) ==
    LastIndex(sym, "+") > 0 /\ IsOffset(From(sym, LastIndex(sym, "+") + 1))

C25_OnlyTrailingOffsetStripped ==
    (fnDone /\ HasTrailingOffset(fnSymbol))
        => fnName = Upto(fnSymbol, LastIndex(fnSymbol, "+"))

(***************************************************************************)
(* Checker.RunAll: one goroutine per collector, appending its checks to    *)
(* allChecks under the mutex; the caller waits on the wait group.          *)
(***************************************************************************)
MaxCollectors == 2

CollectorNames == <<"cpu", "memory", "disk", "network">>

\* what a collector's Collect returns: n checks and an error or none
Outcomes ==
    {[err |-> FALSE, n |-> 0], [err |-> FALSE, n |-> 2], [err |-> TRUE, n |-> 1]}

CollectorLists == UNION {[1..n -> Outcomes] : n \in 0..MaxCollectors}

\* the k-th check a collector returns
CheckOf(i, k) ==
    [Resource |-> CollectorNames[i], Type |-> "utilization", Value |-> "v",
     RawValue |-> k, Status |-> "ok", Description |-> ""]

\* the check added for a failed collector, lines 55-63
UnknownCheck(i) ==
    [Resource |-> CollectorNames[i], Type |-> "utilization", Value |-> "unknown",
     RawValue |-> 0, Status |-> "unknown", Description |-> "error"]

\* checks, err := col.Collect(...); if err != nil { checks = ... }, lines 48-64
Collect(i) ==
    IF collectors[i].err THEN <<UnknownCheck(i)>>
    ELSE [k \in 1..collectors[i].n |-> CheckOf(i, k)]

\* mu.Lock() proceeds without waiting
CanLockAlways(m) == TRUE

\* mu.Lock() proceeds only when no goroutine holds the mutex
CanLock(m) == m = 0

InitRunAll ==
    /\ PipelineIdle /\ CaptureIdle /\ FramesIdle /\ SparklineIdle
    /\ collectors \in CollectorLists
    /\ spawned = 0
    /\ gpc = [i \in 1..Len(collectors) |-> "unspawned"]
    /\ checks = [i \in 1..Len(collectors) |-> <<>>]
    /\ loaded = [i \in 1..Len(collectors) |-> <<>>]
    /\ mu = 0
    /\ wg = 0
    /\ allChecks = <<>>
    /\ runAllPc = "loop"
    /\ runAllResult = <<>>

runAllOthers == <<pipelineVars, captureVars, frameVars, sparklineVars>>

\* wg.Add(1); go func(col Collector) {...}(collector), lines 41-43
Spawn ==
    /\ runAllPc = "loop"
    /\ spawned < Len(collectors)
    /\ spawned' = spawned + 1
    /\ wg' = wg + 1
    /\ gpc' = [gpc EXCEPT ![spawned + 1] = "collect"]
    /\ UNCHANGED <<collectors, checks, loaded, mu, allChecks, runAllPc, runAllResult>>
    /\ UNCHANGED runAllOthers

\* the goroutine's call of Collect and its error branch, lines 48-64
GoCollect(i) ==
    /\ gpc[i] = "collect"
    /\ checks' = [checks EXCEPT ![i] = Collect(i)]
    /\ gpc' = [gpc EXCEPT ![i] = "lock"]
    /\ UNCHANGED <<collectors, spawned, loaded, mu, wg, allChecks, runAllPc, runAllResult>>
    /\ UNCHANGED runAllOthers

\* mu.Lock(), line 66
GoLock(i) ==
    /\ gpc[i] = "lock"
    /\ CanLock(mu)
    /\ mu' = i
    /\ gpc' = [gpc EXCEPT ![i] = "load"]
    /\ UNCHANGED <<collectors, spawned, checks, loaded, wg, allChecks, runAllPc, runAllResult>>
    /\ UNCHANGED runAllOthers

\* append(allChecks, checks...) reads the slice, line 67
GoLoad(i) ==
    /\ gpc[i] = "load"
    /\ loaded' = [loaded EXCEPT ![i] = allChecks]
    /\ gpc' = [gpc EXCEPT ![i] = "store"]
    /\ UNCHANGED <<collectors, spawned, checks, mu, wg, allChecks, runAllPc, runAllResult>>
    /\ UNCHANGED runAllOthers

\* allChecks = ... assigns the extended slice, line 67
GoStore(i) ==
    /\ gpc[i] = "store"
    /\ allChecks' = loaded[i] \o checks[i]
    /\ gpc' = [gpc EXCEPT ![i] = "unlock"]
    /\ UNCHANGED <<collectors, spawned, checks, loaded, mu, wg, runAllPc, runAllResult>>
    /\ UNCHANGED runAllOthers

\* mu.Unlock(), line 68
GoUnlock(i) ==
    /\ gpc[i] = "unlock"
    /\ mu' = 0
    /\ gpc' = [gpc EXCEPT ![i] = "exit"]
    /\ UNCHANGED <<collectors, spawned, checks, loaded, wg, allChecks, runAllPc, runAllResult>>
    /\ UNCHANGED runAllOthers

\* defer wg.Done(), line 44
GoDone(i) ==
    /\ gpc[i] = "exit"
    /\ wg' = wg - 1
    /\ gpc' = [gpc EXCEPT ![i] = "done"]
    /\ UNCHANGED <<collectors, spawned, checks, loaded, mu, allChecks, runAllPc, runAllResult>>
    /\ UNCHANGED runAllOthers

\* wg.Wait(); return allChecks, lines 72-73
WaitReturn ==
    /\ runAllPc = "loop"
    /\ spawned = Len(collectors)
    /\ wg = 0
    /\ runAllResult' = allChecks
    /\ runAllPc' = "returned"
    /\ UNCHANGED <<collectors, spawned, gpc, checks, loaded, mu, wg, allChecks>>
    /\ UNCHANGED runAllOthers

NextRunAll ==
    \/ Spawn
    \/ \E i \in 1..Len(collectors) : GoCollect(i)
    \/ \E i \in 1..Len(collectors) : GoLock(i)
    \/ \E i \in 1..Len(collectors) : GoLoad(i)
    \/ \E i \in 1..Len(collectors) : GoStore(i)
    \/ \E i \in 1..Len(collectors) : GoUnlock(i)
    \/ \E i \in 1..Len(collectors) : GoDone(i)
    \/ WaitReturn

SpecRunAll == InitRunAll /\ [][NextRunAll]_vars

\* what the result must hold for collector i
ExpectedBlock(i) ==
    IF collectors[i].err
    THEN <<[Resource |-> CollectorNames[i], Type |-> "utilization",
            Value |-> "unknown", RawValue |-> 0, Status |-> "unknown",
            Description |-> "error"]>>
    ELSE [k \in 1..collectors[i].n |-> CheckOf(i, k)]

\* the blocks of all collectors, one after the other in the order f
BlocksInOrder(f) ==
    Flatten([p \in 1..Len(collectors) |-> ExpectedBlock(f[p])])

(***************************************************************************)
(* C29: RunAll returns only after every collector goroutine has finished,  *)
(* and under every interleaving its result is the concatenation, in some   *)
(* order of the collectors, of one block per collector: all the checks it  *)
(* returned in its own order, or the single unknown check naming it if it  *)
(* failed.  Nothing is lost or duplicated.                                 *)
(***************************************************************************)
C29_RunAllGathersEveryCollector ==
    runAllPc = "returned" =>
        /\ \A i \in 1..Len(collectors) : gpc[i] = "done"
        /\ \E f \in Orderings(Len(collectors)) : runAllResult = BlocksInOrder(f)

\* two collectors, the first failed, and the second's checks come first
C29_Witness ==
    /\ runAllPc = "returned"
    /\ Len(collectors) = 2
    /\ collectors[1].err /\ ~collectors[2].err /\ collectors[2].n = 2
    /\ Len(runAllResult) = 3
    /\ runAllResult[1] = CheckOf(2, 1)
    /\ runAllResult[3].Status = "unknown"
    /\ runAllResult[3].Resource = CollectorNames[1]

(***************************************************************************)
(* SparklineTracker: concurrent callers of Record on one tracker           *)
(***************************************************************************)
MaxRecords == 3

defaultMaxLen == 20

MaxLenArgs == {-1, 0, 1, 2}

Callers == {1, 2}

MetricKeys == {"cpu", "mem"}

MetricValues == {1, 2}

\* NewSparklineTracker, lines 17-19
NewMaxLen(arg) == IF arg < 1 THEN defaultMaxLen ELSE arg

\* the first n values of the window
trimHead(vals, n) == SubSeq(vals, 1, n)

\* s.data[key][len(s.data[key])-s.maxLen:], line 33
trim(vals, n) == SubSeq(vals, Len(vals) - n + 1, Len(vals))

\* s.data[key] of a key that may be missing from the map
Window(d, key) == IF key \in DOMAIN d THEN d[key] ELSE <<>>

\* the map with the window of key replaced
SetWindow(d, key, vals) ==
    [k \in DOMAIN d \cup {key} |-> IF k = key THEN vals ELSE d[k]]

\* calls of Record begun and not yet finished or finished
RecordsBegun == Len(recorded) + Cardinality({t \in Callers : rpc[t] = "lock"})

InitSparkline ==
    /\ PipelineIdle /\ CaptureIdle /\ FramesIdle /\ RunAllIdle
    /\ newArg \in MaxLenArgs
    /\ maxLen = NewMaxLen(newArg)
    /\ data = [k \in {} |-> <<>>]
    /\ smu = 0
    /\ rpc = [t \in Callers |-> "idle"]
    /\ rarg = [t \in Callers |-> [key |-> "cpu", value |-> 1]]
    /\ recorded = <<>>

sparklineOthers == <<pipelineVars, captureVars, frameVars, runAllVars>>

\* a caller calls Record(key, value), line 27
RecordCall(t, key, value) ==
    /\ rpc[t] = "idle"
    /\ RecordsBegun < MaxRecords
    /\ rarg' = [rarg EXCEPT ![t] = [key |-> key, value |-> value]]
    /\ rpc' = [rpc EXCEPT ![t] = "lock"]
    /\ UNCHANGED <<newArg, maxLen, data, smu, recorded>>
    /\ UNCHANGED sparklineOthers

\* s.mu.Lock(), line 28
RecordLock(t) ==
    /\ rpc[t] = "lock"
    /\ CanLock(smu)
    /\ smu' = t
    /\ recorded' = Append(recorded, rarg[t])
    /\ rpc' = [rpc EXCEPT ![t] = "append"]
    /\ UNCHANGED <<newArg, maxLen, data, rarg>>
    /\ UNCHANGED sparklineOthers

\* s.data[key] = append(s.data[key], value), line 31
RecordAppend(t) ==
    /\ rpc[t] = "append"
    /\ data' = SetWindow(data, rarg[t].key,
                         Append(Window(data, rarg[t].key), rarg[t].value))
    /\ rpc' = [rpc EXCEPT ![t] = "trim"]
    /\ UNCHANGED <<newArg, maxLen, smu, rarg, recorded>>
    /\ UNCHANGED sparklineOthers

\* if len(s.data[key]) > s.maxLen { ... }, lines 32-34
RecordTrim(t) ==
    /\ rpc[t] = "trim"
    /\ data' = IF Len(data[rarg[t].key]) > maxLen
               THEN SetWindow(data, rarg[t].key, trim(data[rarg[t].key], maxLen))
               ELSE data
    /\ rpc' = [rpc EXCEPT ![t] = "unlock"]
    /\ UNCHANGED <<newArg, maxLen, smu, rarg, recorded>>
    /\ UNCHANGED sparklineOthers

\* defer s.mu.Unlock(), line 29
RecordUnlock(t) ==
    /\ rpc[t] = "unlock"
    /\ smu' = 0
    /\ rpc' = [rpc EXCEPT ![t] = "idle"]
    /\ UNCHANGED <<newArg, maxLen, data, rarg, recorded>>
    /\ UNCHANGED sparklineOthers

NextSparkline ==
    \/ \E t \in Callers, key \in MetricKeys, value \in MetricValues :
           RecordCall(t, key, value)
    \/ \E t \in Callers : RecordLock(t)
    \/ \E t \in Callers : RecordAppend(t)
    \/ \E t \in Callers : RecordTrim(t)
    \/ \E t \in Callers : RecordUnlock(t)

SpecSparkline == InitSparkline /\ [][NextSparkline]_vars

\* the values recorded under a key, in recording order
RECURSIVE ValuesOf(_, _)
ValuesOf(calls, key) ==
    IF calls = <<>> THEN <<>>
    ELSE IF Head(calls).key = key
         THEN <<Head(calls).value>> \o ValuesOf(Tail(calls), key)
         ELSE ValuesOf(Tail(calls), key)

\* the last n values of a history, all of it if it is shorter
MostRecent(h, n) == IF Len(h) <= n THEN h ELSE SubSeq(h, Len(h) - n + 1, Len(h))

(***************************************************************************)
(* C30: whenever no Record call holds the tracker, every key's window has  *)
(* at most maxLen values (20 when the tracker was constructed with a       *)
(* maxLen below 1) and holds exactly the most recent values recorded under *)
(* that key, in recording order; a key's window depends on the calls for   *)
(* that key alone.                                                         *)
(***************************************************************************)
C30_WindowIsMostRecent ==
    smu = 0 =>
        /\ maxLen = (IF newArg < 1 THEN 20 ELSE newArg)
        /\ \A key \in MetricKeys :
              /\ Len(Window(data, key)) <= maxLen
              /\ Window(data, key) = MostRecent(ValuesOf(recorded, key), maxLen)
              /\ key \in DOMAIN data <=> ValuesOf(recorded, key) # <<>>

\* a window of one value, two calls for cpu around one for mem
C30_Witness ==
    /\ smu = 0
    /\ maxLen = 1
    /\ recorded = <<[key |-> "cpu", value |-> 1], [key |-> "mem", value |-> 1],
                    [key |-> "cpu", value |-> 2]>>
    /\ data = [k \in MetricKeys |-> IF k = "cpu" THEN <<2>> ELSE <<1>>]

====
